---- MODULE Spec2Model ----
(***************************************************************************)
(* Model of the rollup node runtime of opnode/node/node.go: construction   *)
(* (New), start-up (OpNode.Start: per-engine bootstrap, head fan-out, the  *)
(* resubscribing L1 head subscription, the event loop) and the synchronous *)
(* shutdown handshake (OpNode.Stop).                                       *)
(***************************************************************************)
EXTENDS Integers, Sequences, FiniteSets, TLC

\* ---------------------------------------------------------------- bounds
MaxL1 == 2        \* longest list of L1 addresses tried
MaxEngines == 1   \* longest list of L2 engine addresses tried
MaxStarts == 2    \* calls of Start on the node
MaxStops == 1     \* calls of Stop on the node
MaxSignals == 2   \* head signals the L1 endpoint produces in a run

\* Capacity of every fan-out channel: make(chan eth.HeadSignal, 10).
ChanCap == 10

\* ---------------------------------------------------------------- state
VARIABLES
    cfg,        \* the *Config handed to New
    newErr,     \* what New returned: "none" (not called), "nil", or the error
    c,          \* the OpNode value the caller holds
    l1Closed,   \* calls of c.l1Source.Close()
    engHead,    \* per engine: its head state
    engClosed,  \* per engine: calls of eng.Close()
    startPc,    \* per Start call: the line it has reached
    startEng,   \* per Start call: index of the engine loop (line 159)
    reqs,       \* per Start call and engine: results of eng.RequestUpdate
    genCalls,   \* per Start call and engine: calls of UpdateHead(Genesis)
    unsub,      \* per Start call: the local list `unsub`
    subs,       \* per Start call and handle: the subscription handle
    listener,   \* per Start call and handle: the error-listener goroutine
    feedSubs,   \* per Start call: channels registered on l1HeadsFeed
    chans,      \* per Start call and consumer: buffered channel content
    sent,       \* per Start call: number of Sends begun on l1HeadsFeed
    sending,    \* per Start call: channels the Send in flight still waits on
    sup,        \* per Start call: the resubscription goroutine
    produced,   \* head signals produced by the L1 endpoint so far
    drive,      \* per Start call and engine: the Drive loop
    loopPc,     \* per Start call: the event-loop goroutine
    loopIdx,    \* per Start call: index of the teardown loops
    loopDone,   \* per Start call: the `done` channel received from c.close
    closeErr,   \* per Start call: a Close of the teardown met an error
    stopPc,     \* per Stop call: the line it has reached
    stopErr,    \* per Stop call: the value it returned
    stopAfter   \* per Stop call: Start calls that had returned on entry

cfgVars   == <<cfg, newErr, c>>
resVars   == <<l1Closed, engHead, engClosed>>
startVars == <<startPc, startEng, reqs, genCalls, unsub>>
subVars   == <<subs, listener>>
feedVars  == <<feedSubs, chans, sent, sending>>
srcVars   == <<sup, produced, drive>>
loopVars  == <<loopPc, loopIdx, loopDone, closeErr>>
stopVars  == <<stopPc, stopErr, stopAfter>>
vars == <<cfgVars, resVars, startVars, subVars, feedVars, srcVars, loopVars, stopVars>>

Starts  == 1..MaxStarts
Stops   == 1..(MaxStops + 1)

\* The Stop calls made in the lifecycle runs.
RunStops == 1..MaxStops
Engines == 1..MaxEngines

\* Subscription handles of one Start: handle i is engine i's Drive
\* subscription, handle 0 is the L1 heads subscription.
L1HeadsSub == 0
Handles == {L1HeadsSub} \cup Engines

\* Consumers of one Start's feed: channel i is engine i's l1SubCh, channel 0
\* is the observer channel l1Heads.
Observer == 0
Consumers == {Observer} \cup Engines

\* ------------------------------------------------------------ construction
\* rpc.DialContext returns (client, err): "ok" is (client, nil), "disc" is a
\* disconnected client together with an error, "fail" is (nil, err).
DialOutcome == {"ok", "disc", "fail"}

SeqsUpTo(S, n) == UNION {[1..k -> S] : k \in 0..n}

Configs == [logOk : BOOLEAN,
            l1 : SeqsUpTo(DialOutcome, MaxL1),
            l2 : SeqsUpTo(DialOutcome, MaxEngines)]

\* The zero value of OpNode: every field nil.
ZeroNode == [close |-> "nil", l1Source |-> <<>>, l2Engines |-> <<>>]

\* cfg.Check(): fails exactly when the log sub-config is invalid.
Check(conf) == IF conf.logOk THEN "nil" ELSE "log"

\* The loop over cfg.L1NodeAddrs: the sources appended so far, or the error
\* of the first dial that produced no client.
RECURSIVE DialL1Skip(_, _, _)
DialL1Skip(addrs, i, acc) ==
    IF i > Len(addrs) THEN [err |-> "nil", handles |-> acc]
    ELSE IF addrs[i] = "fail" THEN DialL1Skip(addrs, i + 1, acc)
    ELSE DialL1Skip(addrs, i + 1, Append(acc, addrs[i]))

RECURSIVE DialL1(_, _, _)
DialL1(addrs, i, acc) ==
    IF i > Len(addrs) THEN [err |-> "nil", handles |-> acc]
    ELSE IF addrs[i] = "fail" THEN [err |-> "dialL1", handles |-> <<>>]
    ELSE DialL1(addrs, i + 1, Append(acc, addrs[i]))

\* The loop over cfg.L2EngineAddrs: the engines appended so far, or the
\* error of the first dial that produced no backend.
RECURSIVE DialL2(_, _, _)
DialL2(addrs, i, acc) ==
    IF i > Len(addrs) THEN [err |-> "nil", handles |-> acc]
    ELSE IF addrs[i] = "fail" THEN [err |-> "dialL2", handles |-> <<>>]
    ELSE DialL2(addrs, i + 1, Append(acc, addrs[i]))

\* New(ctx, cfg): the pair (node, err) it returns.
NewResult(conf) ==
    IF Check(conf) # "nil" THEN [err |-> Check(conf), node |-> ZeroNode]
    ELSE LET r1 == DialL1(conf.l1, 1, <<>>) IN
         IF r1.err # "nil" THEN [err |-> r1.err, node |-> ZeroNode]
         ELSE IF Len(r1.handles) = 0 THEN [err |-> "noL1", node |-> ZeroNode]
         ELSE LET r2 == DialL2(conf.l2, 1, <<>>) IN
              IF r2.err # "nil" THEN [err |-> r2.err, node |-> ZeroNode]
              ELSE [err |-> "nil",
                    node |-> [close |-> "chan",
                              l1Source |-> r1.handles,
                              l2Engines |-> r2.handles]]

\* The engines of the node the caller holds.
NodeEngines == 1..Len(c.l2Engines)


\* ------------------------------------------------------------------ Init
NoSub == [created |-> FALSE, unsubCalls |-> 0, err |-> "open"]

InitWith(configs) ==
    /\ cfg \in configs
    /\ newErr = "none"
    /\ c = ZeroNode
    /\ l1Closed = 0
    /\ engHead = [i \in Engines |-> "undef"]
    /\ engClosed = [i \in Engines |-> 0]
    /\ startPc = [s \in Starts |-> "idle"]
    /\ startEng = [s \in Starts |-> 0]
    /\ reqs = [s \in Starts |-> [i \in Engines |-> <<>>]]
    /\ genCalls = [s \in Starts |-> [i \in Engines |-> 0]]
    /\ unsub = [s \in Starts |-> <<>>]
    /\ subs = [s \in Starts |-> [h \in Handles |-> NoSub]]
    /\ listener = [s \in Starts |-> [h \in Handles |-> "none"]]
    /\ feedSubs = [s \in Starts |-> <<>>]
    /\ chans = [s \in Starts |-> [x \in Consumers |-> <<>>]]
    /\ sent = [s \in Starts |-> 0]
    /\ sending = [s \in Starts |-> {}]
    /\ sup = [s \in Starts |-> "none"]
    /\ produced = 0
    /\ drive = [s \in Starts |-> [i \in Engines |-> "none"]]
    /\ loopPc = [s \in Starts |-> "none"]
    /\ loopIdx = [s \in Starts |-> 0]
    /\ loopDone = [s \in Starts |-> 0]
    /\ closeErr = [s \in Starts |-> FALSE]
    /\ stopPc = [k \in Stops |-> "idle"]
    /\ stopErr = [k \in Stops |-> "none"]
    /\ stopAfter = [k \in Stops |-> 0]

\* New(ctx, cfg). On an error the caller gets no node: c keeps its zero value.
New ==
    /\ newErr = "none"
    /\ newErr' = NewResult(cfg).err
    /\ c' = NewResult(cfg).node
    /\ UNCHANGED <<cfg, resVars, startVars, subVars, feedVars, srcVars, loopVars, stopVars>>

\* ----------------------------------------------------------------- Start
\* handleUnsubscribe(sub, errMsg): append sub.Unsubscribe to unsub and start
\* the goroutine that waits on sub.Err().
HandleUnsubscribeNoAppend(s, h) ==
    /\ unsub' = unsub
    /\ subs' = [subs EXCEPT ![s][h].created = TRUE]
    /\ listener' = [listener EXCEPT ![s][h] = "waiting"]

HandleUnsubscribe(s, h) ==
    /\ unsub' = [unsub EXCEPT ![s] = Append(@, h)]
    /\ subs' = [subs EXCEPT ![s][h].created = TRUE]
    /\ listener' = [listener EXCEPT ![s][h] = "waiting"]

\* Start is entered: logging, the empty unsub list, AddReceiptWorkers(4) and
\* the fresh l1HeadsFeed. Calls of Start follow one another on the caller's
\* goroutine. Start on a node not built by New dereferences the nil logger
\* and is not modelled.
StartCall(s) ==
    /\ startPc[s] = "idle"
    /\ IF s = 1 THEN TRUE ELSE startPc[s - 1] = "done"
    /\ newErr = "nil"
    /\ startPc' = [startPc EXCEPT ![s] = IF NodeEngines = {} THEN "resub" ELSE "req"]
    /\ startEng' = [startEng EXCEPT ![s] = 1]
    /\ UNCHANGED <<reqs, genCalls, unsub>>
    /\ UNCHANGED <<cfgVars, resVars, subVars, feedVars, srcVars, loopVars, stopVars>>

\* eng.RequestUpdate under the 10 s timeout: ok is its result. On success
\* the engine holds the head it fetched; on failure UpdateHead sets genesis.
StartRequestNoFallback(s) ==
    /\ startPc[s] = "req"
    /\ \E ok \in BOOLEAN :
        LET i == startEng[s] IN
        /\ reqs' = [reqs EXCEPT ![s][i] = Append(@, ok)]
        /\ engHead' = [engHead EXCEPT ![i] = IF ok THEN "reported" ELSE @]
        /\ genCalls' = genCalls
    /\ startPc' = [startPc EXCEPT ![s] = "sub"]
    /\ UNCHANGED <<startEng, unsub, l1Closed, engClosed>>
    /\ UNCHANGED <<cfgVars, subVars, feedVars, srcVars, loopVars, stopVars>>

StartRequestAlwaysGenesis(s) ==
    /\ startPc[s] = "req"
    /\ \E ok \in BOOLEAN :
        LET i == startEng[s] IN
        /\ reqs' = [reqs EXCEPT ![s][i] = Append(@, ok)]
        /\ engHead' = [engHead EXCEPT ![i] = "genesis"]
        /\ genCalls' = [genCalls EXCEPT ![s][i] = @ + 1]
    /\ startPc' = [startPc EXCEPT ![s] = "sub"]
    /\ UNCHANGED <<startEng, unsub, l1Closed, engClosed>>
    /\ UNCHANGED <<cfgVars, subVars, feedVars, srcVars, loopVars, stopVars>>

StartRequest(s) ==
    /\ startPc[s] = "req"
    /\ \E ok \in BOOLEAN :
        LET i == startEng[s] IN
        /\ reqs' = [reqs EXCEPT ![s][i] = Append(@, ok)]
        /\ engHead' = [engHead EXCEPT ![i] = IF ok THEN "reported" ELSE "genesis"]
        /\ genCalls' = [genCalls EXCEPT ![s][i] = IF ok THEN @ ELSE @ + 1]
    /\ startPc' = [startPc EXCEPT ![s] = "sub"]
    /\ UNCHANGED <<startEng, unsub, l1Closed, engClosed>>
    /\ UNCHANGED <<cfgVars, subVars, feedVars, srcVars, loopVars, stopVars>>

\* l1SubCh := make(chan eth.HeadSignal, 10); l1HeadsFeed.Subscribe(l1SubCh).
\* The feed subscription that Subscribe returns is dropped.
StartSubscribe(s) ==
    /\ startPc[s] = "sub"
    /\ feedSubs' = [feedSubs EXCEPT ![s] = Append(@, startEng[s])]
    /\ startPc' = [startPc EXCEPT ![s] = "drive"]
    /\ UNCHANGED <<startEng, reqs, genCalls, unsub, chans, sent, sending>>
    /\ UNCHANGED <<cfgVars, resVars, subVars, srcVars, loopVars, stopVars>>

\* engDriveSub := eng.Drive(c.ctx, l1SubCh); handleUnsubscribe(engDriveSub);
\* then the next engine, or on to the L1 heads subscription.
StartDrive(s) ==
    /\ startPc[s] = "drive"
    /\ LET i == startEng[s] IN
        /\ drive' = [drive EXCEPT ![s][i] = "running"]
        /\ HandleUnsubscribe(s, i)
        /\ IF i < Len(c.l2Engines)
           THEN /\ startEng' = [startEng EXCEPT ![s] = i + 1]
                /\ startPc' = [startPc EXCEPT ![s] = "req"]
           ELSE /\ startEng' = startEng
                /\ startPc' = [startPc EXCEPT ![s] = "resub"]
    /\ UNCHANGED <<reqs, genCalls, sup, produced>>
    /\ UNCHANGED <<cfgVars, resVars, feedVars, loopVars, stopVars>>

\* l1HeadsSub := event.ResubscribeErr(...): the resubscription goroutine is
\* started; handleUnsubscribe(l1HeadsSub, ...).
StartResubscribe(s) ==
    /\ startPc[s] = "resub"
    /\ sup' = [sup EXCEPT ![s] = "subscribing"]
    /\ HandleUnsubscribe(s, L1HeadsSub)
    /\ startPc' = [startPc EXCEPT ![s] = "observe"]
    /\ UNCHANGED <<startEng, reqs, genCalls, produced, drive>>
    /\ UNCHANGED <<cfgVars, resVars, feedVars, loopVars, stopVars>>

\* l1Heads := make(chan eth.HeadSignal, 10); l1HeadsFeed.Subscribe(l1Heads).
StartObserve(s) ==
    /\ startPc[s] = "observe"
    /\ feedSubs' = [feedSubs EXCEPT ![s] = Append(@, Observer)]
    /\ startPc' = [startPc EXCEPT ![s] = "spawn"]
    /\ UNCHANGED <<startEng, reqs, genCalls, unsub, chans, sent, sending>>
    /\ UNCHANGED <<cfgVars, resVars, subVars, srcVars, loopVars, stopVars>>

\* go func() { for { select ... } }(); return nil.
StartLoop(s) ==
    /\ startPc[s] = "spawn"
    /\ loopPc' = [loopPc EXCEPT ![s] = "select"]
    /\ startPc' = [startPc EXCEPT ![s] = "done"]
    /\ UNCHANGED <<startEng, reqs, genCalls, unsub, loopIdx, loopDone, closeErr>>
    /\ UNCHANGED <<cfgVars, resVars, subVars, feedVars, srcVars, stopVars>>


\* ------------------------------------------------- L1 heads subscription
\* The goroutine of event.ResubscribeErr calls the subscribe function, which
\* calls eth.WatchHeadChanges: ok is whether that returned a subscription.
\* A failed attempt is retried after the wait.
SupSubscribe(s) ==
    /\ sup[s] = "subscribing"
    /\ \E ok \in BOOLEAN :
        sup' = [sup EXCEPT ![s] = IF ok THEN "active" ELSE "waiting"]
    /\ UNCHANGED <<produced, drive>>
    /\ UNCHANGED <<cfgVars, resVars, startVars, subVars, feedVars, loopVars, stopVars>>

\* The live subscription reports an error: the goroutine waits before the
\* next attempt. The error is seen between two heads, not inside a Send.
SupFailGivesUp(s) ==
    /\ sup[s] = "active"
    /\ sending[s] = {}
    /\ sup' = [sup EXCEPT ![s] = "closed"]
    /\ UNCHANGED <<produced, drive>>
    /\ UNCHANGED <<cfgVars, resVars, startVars, subVars, feedVars, loopVars, stopVars>>

SupFail(s) ==
    /\ sup[s] = "active"
    /\ sending[s] = {}
    /\ sup' = [sup EXCEPT ![s] = "waiting"]
    /\ UNCHANGED <<produced, drive>>
    /\ UNCHANGED <<cfgVars, resVars, startVars, subVars, feedVars, loopVars, stopVars>>

\* The wait is over: the next attempt, with the warning of line 179.
SupRetryOnce(s) ==
    /\ sup[s] = "waiting"
    /\ sup' = [sup EXCEPT ![s] = IF sent[s] = 0 THEN "subscribing" ELSE "closed"]
    /\ UNCHANGED <<produced, drive>>
    /\ UNCHANGED <<cfgVars, resVars, startVars, subVars, feedVars, loopVars, stopVars>>

SupRetry(s) ==
    /\ sup[s] = "waiting"
    /\ sup' = [sup EXCEPT ![s] = "subscribing"]
    /\ UNCHANGED <<produced, drive>>
    /\ UNCHANGED <<cfgVars, resVars, startVars, subVars, feedVars, loopVars, stopVars>>

\* Room in a fan-out channel.
HasRoom(s, x) == Len(chans[s][x]) < ChanCap

\* The subscription that l1HeadsFeed.Subscribe returns for the channel of
\* consumer x: a handle of its own, distinct from every Drive handle and
\* from the L1 heads handle.
FeedHandle(x) == MaxEngines + 1 + x

\* The set of channels registered on the feed of Start s.
Registered(s) == {feedSubs[s][j] : j \in 1..Len(feedSubs[s])}

\* The live subscription delivers a head: the callback of line 181 runs
\* l1HeadsFeed.Send(sig). Send first hands sig to every registered channel
\* that has room and then waits for the others; the callback, and with it the
\* subscription's goroutine, is inside Send until each has taken sig. limit
\* bounds the heads the L1 endpoint produces.
HeadSendFirstOnly(s, limit) ==
    /\ sup[s] = "active"
    /\ sending[s] = {}
    /\ produced < limit
    /\ produced' = produced + 1
    /\ sent' = [sent EXCEPT ![s] = @ + 1]
    /\ chans' = [chans EXCEPT ![s] =
                    [x \in Consumers |->
                        IF feedSubs[s] # <<>> /\ x = feedSubs[s][1] /\ HasRoom(s, x)
                        THEN Append(@[x], produced + 1) ELSE @[x]]]
    /\ sending' = sending
    /\ UNCHANGED <<feedSubs, sup, drive>>
    /\ UNCHANGED <<cfgVars, resVars, startVars, subVars, loopVars, stopVars>>

HeadSendUpTo(s, limit) ==
    /\ sup[s] = "active"
    /\ sending[s] = {}
    /\ produced < limit
    /\ produced' = produced + 1
    /\ sent' = [sent EXCEPT ![s] = @ + 1]
    /\ chans' = [chans EXCEPT ![s] =
                    [x \in Consumers |->
                        IF x \in Registered(s) /\ HasRoom(s, x)
                        THEN Append(@[x], produced + 1) ELSE @[x]]]
    /\ sending' = [sending EXCEPT ![s] = {x \in Registered(s) : ~HasRoom(s, x)}]
    /\ UNCHANGED <<feedSubs, sup, drive>>
    /\ UNCHANGED <<cfgVars, resVars, startVars, subVars, loopVars, stopVars>>

HeadSend(s) == HeadSendUpTo(s, MaxSignals)

\* A channel the Send in flight waits on has room again and takes the head;
\* Send returns when none is left.
SendDeliver(s, x) ==
    /\ x \in sending[s]
    /\ HasRoom(s, x)
    /\ chans' = [chans EXCEPT ![s][x] = Append(@, produced)]
    /\ sending' = [sending EXCEPT ![s] = @ \ {x}]
    /\ UNCHANGED <<feedSubs, sent>>
    /\ UNCHANGED <<cfgVars, resVars, startVars, subVars, srcVars, loopVars, stopVars>>

\* ------------------------------------------------------------ consumers
\* The Drive loop of engine i takes the next head from its channel and
\* advances the engine's head from the one it holds.
DriveRecv(s, i) ==
    /\ drive[s][i] = "running"
    /\ chans[s][i] # <<>>
    /\ chans' = [chans EXCEPT ![s][i] = Tail(@)]
    /\ engHead' = [engHead EXCEPT ![i] = IF @ = "undef" THEN "undef" ELSE "derived"]
    /\ UNCHANGED <<feedSubs, sent, sending, l1Closed, engClosed>>
    /\ UNCHANGED <<cfgVars, startVars, subVars, srcVars, loopVars, stopVars>>

\* The Drive loop of engine i fails: it reports on the error channel of its
\* subscription and stops consuming.
DriveFail(s, i) ==
    /\ drive[s][i] = "running"
    /\ drive' = [drive EXCEPT ![s][i] = "failed"]
    /\ subs' = [subs EXCEPT ![s][i].err = "error"]
    /\ UNCHANGED <<sup, produced, listener>>
    /\ UNCHANGED <<cfgVars, resVars, startVars, feedVars, loopVars, stopVars>>

\* The goroutine of handleUnsubscribe: err, ok := <-sub.Err(). It returns on
\* a closed channel and logs an error otherwise; either way it ends.
ListenerWakeLoops(s, h) ==
    /\ listener[s][h] = "waiting"
    /\ subs[s][h].err # "open"
    /\ listener' = [listener EXCEPT ![s][h] =
                        IF subs[s][h].err = "error" THEN "waiting" ELSE "exited"]
    /\ subs' = [subs EXCEPT ![s][h].err = IF @ = "error" THEN "open" ELSE @]
    /\ UNCHANGED <<cfgVars, resVars, startVars, feedVars, srcVars, loopVars, stopVars>>

ListenerWake(s, h) ==
    /\ listener[s][h] = "waiting"
    /\ subs[s][h].err # "open"
    /\ listener' = [listener EXCEPT ![s][h] = "exited"]
    /\ subs' = [subs EXCEPT ![s][h].err = IF @ = "error" THEN "open" ELSE @]
    /\ UNCHANGED <<cfgVars, resVars, startVars, feedVars, srcVars, loopVars, stopVars>>


\* ------------------------------------------------------------ event loop
\* case l1Head := <-l1Heads: the observer channel is read and the head logged.
LoopHead(s) ==
    /\ loopPc[s] = "select"
    /\ chans[s][Observer] # <<>>
    /\ chans' = [chans EXCEPT ![s][Observer] = Tail(@)]
    /\ UNCHANGED <<feedSubs, sent, sending>>
    /\ UNCHANGED <<cfgVars, resVars, startVars, subVars, srcVars, loopVars, stopVars>>

\* case done := <-c.close: the rendezvous with the `c.close <- done` of Stop
\* call k. Teardown starts with the first entry of unsub.
LoopCloseReplyFirst(s, k) ==
    /\ loopPc[s] = "select"
    /\ stopPc[k] = "send"
    /\ loopPc' = [loopPc EXCEPT ![s] = "reply"]
    /\ loopIdx' = [loopIdx EXCEPT ![s] = 1]
    /\ loopDone' = [loopDone EXCEPT ![s] = k]
    /\ closeErr' = closeErr
    /\ stopPc' = [stopPc EXCEPT ![k] = "recv"]
    /\ UNCHANGED <<stopErr, stopAfter>>
    /\ UNCHANGED <<cfgVars, resVars, startVars, subVars, feedVars, srcVars>>

LoopClose(s, k) ==
    /\ loopPc[s] = "select"
    /\ stopPc[k] = "send"
    /\ loopPc' = [loopPc EXCEPT ![s] = IF unsub[s] = <<>> THEN "closeL1" ELSE "unsub"]
    /\ loopIdx' = [loopIdx EXCEPT ![s] = 1]
    /\ loopDone' = [loopDone EXCEPT ![s] = k]
    /\ closeErr' = closeErr
    /\ stopPc' = [stopPc EXCEPT ![k] = "recv"]
    /\ UNCHANGED <<stopErr, stopAfter>>
    /\ UNCHANGED <<cfgVars, resVars, startVars, subVars, feedVars, srcVars>>

\* Unsubscribe returns once the goroutine behind the subscription has ended.
\* The goroutine of the L1 heads subscription runs the callback of line 181
\* and cannot end while that is inside l1HeadsFeed.Send; a Drive loop ends
\* at its next select.
CanUnsubscribe(s, h) == h = L1HeadsSub => sending[s] = {}

\* sub.Unsubscribe() on handle h of Start s: the error channel is closed, the
\* Drive loop is cancelled, the resubscription goroutine ends.
Unsubscribe(s, h) ==
    /\ CanUnsubscribe(s, h)
    /\ subs' = [subs EXCEPT ![s][h].unsubCalls = @ + 1, ![s][h].err = "closed"]
    /\ IF h = L1HeadsSub
       THEN /\ sup' = [sup EXCEPT ![s] = "closed"]
            /\ drive' = drive
       ELSE /\ sup' = sup
            /\ drive' = [drive EXCEPT ![s][h] = IF @ = "running" THEN "stopped" ELSE @]

\* for _, f := range unsub { f() }: one iteration.
LoopUnsubFirstOnly(s) ==
    /\ loopPc[s] = "unsub"
    /\ Unsubscribe(s, unsub[s][loopIdx[s]])
    /\ loopIdx' = [loopIdx EXCEPT ![s] = 1]
    /\ loopPc' = [loopPc EXCEPT ![s] = "closeL1"]
    /\ UNCHANGED <<loopDone, closeErr, listener, produced>>
    /\ UNCHANGED <<cfgVars, resVars, startVars, feedVars, stopVars>>

LoopUnsub(s) ==
    /\ loopPc[s] = "unsub"
    /\ Unsubscribe(s, unsub[s][loopIdx[s]])
    /\ IF loopIdx[s] < Len(unsub[s])
       THEN /\ loopIdx' = [loopIdx EXCEPT ![s] = @ + 1]
            /\ loopPc' = loopPc
       ELSE /\ loopIdx' = [loopIdx EXCEPT ![s] = 1]
            /\ loopPc' = [loopPc EXCEPT ![s] = "closeL1"]
    /\ UNCHANGED <<loopDone, closeErr, listener, produced>>
    /\ UNCHANGED <<cfgVars, resVars, startVars, feedVars, stopVars>>

\* c.l1Source.Close(). Whether the close went well inside the client is not
\* looked at: the loop goes on to the engines either way.
LoopCloseL1ShortCircuit(s) ==
    /\ loopPc[s] = "closeL1"
    /\ l1Closed' = l1Closed + 1
    /\ \E ok \in BOOLEAN :
        /\ closeErr' = [closeErr EXCEPT ![s] = @ \/ ~ok]
        /\ loopPc' = [loopPc EXCEPT ![s] =
                        IF NodeEngines = {} \/ ~ok THEN "reply" ELSE "closeEng"]
    /\ UNCHANGED <<engHead, engClosed, loopIdx, loopDone>>
    /\ UNCHANGED <<cfgVars, startVars, subVars, feedVars, srcVars, stopVars>>

LoopCloseL1(s) ==
    /\ loopPc[s] = "closeL1"
    /\ l1Closed' = l1Closed + 1
    /\ \E ok \in BOOLEAN : closeErr' = [closeErr EXCEPT ![s] = @ \/ ~ok]
    /\ loopPc' = [loopPc EXCEPT ![s] = IF NodeEngines = {} THEN "reply" ELSE "closeEng"]
    /\ UNCHANGED <<engHead, engClosed, loopIdx, loopDone>>
    /\ UNCHANGED <<cfgVars, startVars, subVars, feedVars, srcVars, stopVars>>

\* for _, eng := range c.l2Engines { eng.Close() }: one iteration, its
\* outcome not looked at either.
LoopCloseEngine(s) ==
    /\ loopPc[s] = "closeEng"
    /\ engClosed' = [engClosed EXCEPT ![loopIdx[s]] = @ + 1]
    /\ \E ok \in BOOLEAN : closeErr' = [closeErr EXCEPT ![s] = @ \/ ~ok]
    /\ IF loopIdx[s] < Len(c.l2Engines)
       THEN /\ loopIdx' = [loopIdx EXCEPT ![s] = @ + 1]
            /\ loopPc' = loopPc
       ELSE /\ loopIdx' = loopIdx
            /\ loopPc' = [loopPc EXCEPT ![s] = "reply"]
    /\ UNCHANGED <<l1Closed, engHead, loopDone>>
    /\ UNCHANGED <<cfgVars, startVars, subVars, feedVars, srcVars, stopVars>>

\* done <- nil; return: the rendezvous with the `err := <-done` of the Stop
\* call that sent done, which then returns err.
LoopReply(s) ==
    /\ loopPc[s] = "reply"
    /\ stopPc[loopDone[s]] = "recv"
    /\ stopPc' = [stopPc EXCEPT ![loopDone[s]] = "returned"]
    /\ stopErr' = [stopErr EXCEPT ![loopDone[s]] = "nil"]
    /\ loopPc' = [loopPc EXCEPT ![s] = "exited"]
    /\ UNCHANGED <<loopIdx, loopDone, closeErr, stopAfter>>
    /\ UNCHANGED <<cfgVars, resVars, startVars, subVars, feedVars, srcVars>>

\* ------------------------------------------------------------------ Stop
\* Stop is entered by call k, on the zero-valued node or on the node New
\* built: with c.close nil it returns nil at once, otherwise it makes done
\* and blocks on `c.close <- done`.
StopCall(k) ==
    /\ stopPc[k] = "idle"
    /\ IF k = 1 THEN TRUE ELSE stopPc[k - 1] # "idle"
    /\ newErr \in {"none", "nil"}
    /\ IF c.close # "nil"
       THEN /\ stopPc' = [stopPc EXCEPT ![k] = "send"]
            /\ stopErr' = stopErr
       ELSE /\ stopPc' = [stopPc EXCEPT ![k] = "returned"]
            /\ stopErr' = [stopErr EXCEPT ![k] = "nil"]
    /\ stopAfter' = [stopAfter EXCEPT ![k] = Cardinality({s \in Starts : startPc[s] = "done"})]
    /\ UNCHANGED <<cfgVars, resVars, startVars, subVars, feedVars, srcVars, loopVars>>

\* ----------------------------------------------------------- specification
\* The lifecycle of a node on which the caller calls Start at most once.
Next ==
    \/ New
    \/ StartCall(1)
    \/ \E s \in Starts : StartRequest(s)
    \/ \E s \in Starts : StartSubscribe(s)
    \/ \E s \in Starts : StartDrive(s)
    \/ \E s \in Starts : StartResubscribe(s)
    \/ \E s \in Starts : StartObserve(s)
    \/ \E s \in Starts : StartLoop(s)
    \/ \E s \in Starts : SupSubscribe(s)
    \/ \E s \in Starts : SupFail(s)
    \/ \E s \in Starts : SupRetry(s)
    \/ \E s \in Starts : HeadSend(s)
    \/ \E s \in Starts, i \in Engines : DriveRecv(s, i)
    \/ \E s \in Starts, i \in Engines : DriveFail(s, i)
    \/ \E s \in Starts, h \in Handles : ListenerWake(s, h)
    \/ \E s \in Starts : LoopHead(s)
    \/ \E s \in Starts, k \in RunStops : LoopClose(s, k)
    \/ \E s \in Starts : LoopUnsub(s)
    \/ \E s \in Starts : LoopCloseL1(s)
    \/ \E s \in Starts : LoopCloseEngine(s)
    \/ \E s \in Starts : LoopReply(s)
    \/ \E k \in RunStops : StopCall(k)

\* The lifecycle of a node on which the caller calls Start again, with an
\* L1 endpoint that stays quiet and engines that do not fail.
NextRestart ==
    \/ New
    \/ \E s \in Starts : StartCall(s)
    \/ \E s \in Starts : StartRequest(s)
    \/ \E s \in Starts : StartSubscribe(s)
    \/ \E s \in Starts : StartDrive(s)
    \/ \E s \in Starts : StartResubscribe(s)
    \/ \E s \in Starts : StartObserve(s)
    \/ \E s \in Starts : StartLoop(s)
    \/ \E s \in Starts : SupSubscribe(s)
    \/ \E s \in Starts : SupRetry(s)
    \/ \E s \in Starts, k \in RunStops : LoopClose(s, k)
    \/ \E s \in Starts : LoopUnsub(s)
    \/ \E s \in Starts : LoopCloseL1(s)
    \/ \E s \in Starts : LoopCloseEngine(s)
    \/ \E s \in Starts : LoopReply(s)
    \/ \E k \in RunStops : StopCall(k)

\* Configurations of the lifecycle runs: Start and Stop never read how a
\* client was dialled, so every accepted dial is "ok" here; one configuration
\* without L1 addresses keeps the failure of New in the runs.
RunConfigs ==
    {conf \in Configs :
        /\ conf.logOk
        /\ conf.l1 \in {<<>>, <<"ok">>}
        /\ \A j \in 1..Len(conf.l2) : conf.l2[j] = "ok"}

Init == InitWith(RunConfigs)

Spec == Init /\ [][Next]_vars

\* Construction alone, over every configuration within the bounds.
InitNew == InitWith(Configs)

NextNew == New

SpecNew == InitNew /\ [][NextNew]_vars

SpecRestart == Init /\ [][NextRestart]_vars

\* Fan-out under load: one Start on a node with MaxEngines engines, and an L1
\* endpoint that produces enough heads to fill a channel of ChanCap and to
\* have MaxSignals more arrive after that. Consumers may fall behind and a
\* Drive loop may fail; the subscription itself stays up.
Burst == ChanCap + MaxSignals

HeadBurst(s) == HeadSendUpTo(s, Burst)

FanoutConfigs ==
    {conf \in RunConfigs : conf.l1 = <<"ok">> /\ Len(conf.l2) = MaxEngines}

InitFanout == InitWith(FanoutConfigs)

NextFanout ==
    \/ New
    \/ StartCall(1)
    \/ \E s \in Starts : StartRequest(s)
    \/ \E s \in Starts : StartSubscribe(s)
    \/ \E s \in Starts : StartDrive(s)
    \/ \E s \in Starts : StartResubscribe(s)
    \/ \E s \in Starts : StartObserve(s)
    \/ \E s \in Starts : StartLoop(s)
    \/ \E s \in Starts : SupSubscribe(s)
    \/ \E s \in Starts : SupRetry(s)
    \/ \E s \in Starts : HeadBurst(s)
    \/ \E s \in Starts, x \in Consumers : SendDeliver(s, x)
    \/ \E s \in Starts, i \in Engines : DriveRecv(s, i)
    \/ \E s \in Starts, i \in Engines : DriveFail(s, i)
    \/ \E s \in Starts : LoopHead(s)
    \/ \E s \in Starts, k \in RunStops : LoopClose(s, k)
    \/ \E s \in Starts : LoopUnsub(s)
    \/ \E s \in Starts : LoopCloseL1(s)
    \/ \E s \in Starts : LoopCloseEngine(s)
    \/ \E s \in Starts : LoopReply(s)
    \/ \E k \in RunStops : StopCall(k)

SpecFanout == InitFanout /\ [][NextFanout]_vars

\* The node running, never stopped, on an L1 subscription that may fail any
\* number of times. The resubscription goroutine is scheduled and its wait
\* is finite, so an attempt that is due is made and the wait ends.
NextResub ==
    \/ New
    \/ StartCall(1)
    \/ \E s \in Starts : StartRequest(s)
    \/ \E s \in Starts : StartSubscribe(s)
    \/ \E s \in Starts : StartDrive(s)
    \/ \E s \in Starts : StartResubscribe(s)
    \/ \E s \in Starts : StartObserve(s)
    \/ \E s \in Starts : StartLoop(s)
    \/ \E s \in Starts : SupSubscribe(s)
    \/ \E s \in Starts : SupFail(s)
    \/ \E s \in Starts : SupRetry(s)
    \/ \E s \in Starts : HeadSend(s)
    \/ \E s \in Starts, i \in Engines : DriveRecv(s, i)
    \/ \E s \in Starts : LoopHead(s)

FairResub ==
    \A s \in Starts : WF_vars(SupSubscribe(s)) /\ WF_vars(SupRetry(s))

SpecResub == Init /\ [][NextResub]_vars /\ FairResub

\* The lifecycle with one Stop call more than the lifecycle runs make, one
\* after another or at the same time, on a quiet L1 endpoint.
NextStopAgain ==
    \/ New
    \/ StartCall(1)
    \/ \E s \in Starts : StartRequest(s)
    \/ \E s \in Starts : StartSubscribe(s)
    \/ \E s \in Starts : StartDrive(s)
    \/ \E s \in Starts : StartResubscribe(s)
    \/ \E s \in Starts : StartObserve(s)
    \/ \E s \in Starts : StartLoop(s)
    \/ \E s \in Starts : SupSubscribe(s)
    \/ \E s \in Starts : SupRetry(s)
    \/ \E s \in Starts, k \in Stops : LoopClose(s, k)
    \/ \E s \in Starts : LoopUnsub(s)
    \/ \E s \in Starts : LoopCloseL1(s)
    \/ \E s \in Starts : LoopCloseEngine(s)
    \/ \E s \in Starts : LoopReply(s)
    \/ \E k \in Stops : StopCall(k)

SpecStopAgain == Init /\ [][NextStopAgain]_vars


\* ================================================================ claims
\* The Stop call k was taken by an event loop: its done channel was received.
Served(k) == \E s \in Starts : loopDone[s] = k

\* Every entry of the unsub list of Start s has been unsubscribed.
AllUnsubscribed(s) ==
    \A j \in 1..Len(unsub[s]) : subs[s][unsub[s][j]].unsubCalls >= 1

\* Engine i has left the bootstrap of Start s (lines 161-166).
PastBootstrap(s, i) ==
    /\ i \in NodeEngines
    /\ \/ startEng[s] > i
       \/ startEng[s] = i /\ startPc[s] \notin {"idle", "req"}

\* C1. Shutdown completeness: when a Stop call that an event loop took has
\* returned, the L1 heads subscription and every engine's Drive subscription
\* made by that Start have had Unsubscribe called exactly once, the L1 source
\* has been closed exactly once and every engine has been closed exactly once.
C1_ShutdownComplete ==
    \A k \in Stops, s \in Starts :
        (stopPc[k] = "returned" /\ loopDone[s] = k) =>
            /\ subs[s][L1HeadsSub].created
            /\ subs[s][L1HeadsSub].unsubCalls = 1
            /\ \A i \in NodeEngines :
                   subs[s][i].created /\ subs[s][i].unsubCalls = 1
            /\ l1Closed = 1
            /\ \A i \in NodeEngines : engClosed[i] = 1

C1_Witness ==
    \E k \in Stops, s \in Starts :
        /\ stopPc[k] = "returned"
        /\ loopDone[s] = k
        /\ NodeEngines # {}
        /\ \A i \in NodeEngines : subs[s][i].unsubCalls = 1 /\ engClosed[i] = 1

\* C2. Teardown order: handles are unsubscribed only by the teardown of the
\* event loop; the L1 source is closed only once every handle of the unsub
\* list has been unsubscribed; no engine is closed before the L1 source is.
C2_TeardownOrder ==
    /\ \A s \in Starts, h \in Handles :
        subs[s][h].unsubCalls >= 1 => loopPc[s] \notin {"none", "select"}
    /\ l1Closed >= 1 =>
        \E s \in Starts :
            /\ loopPc[s] \in {"closeEng", "reply", "exited"}
            /\ unsub[s] # <<>>
            /\ AllUnsubscribed(s)
    /\ \A i \in Engines : engClosed[i] >= 1 => l1Closed >= 1

C2_Witness ==
    /\ l1Closed = 1
    /\ NodeEngines # {}
    /\ \E i \in NodeEngines : engClosed[i] = 0
    /\ \E s \in Starts : loopPc[s] = "closeEng" /\ Len(unsub[s]) >= 2

\* C3. Stop is synchronous: while the event loop that took a Stop call is
\* tearing down, that call is still blocked on its done channel; once the
\* call has returned, the loop has unsubscribed every handle, closed the L1
\* source and every engine, written nil to done and ended.
C3_StopSynchronous ==
    /\ \A s \in Starts :
        loopPc[s] \in {"unsub", "closeL1", "closeEng", "reply"} =>
            stopPc[loopDone[s]] = "recv"
    /\ \A k \in Stops, s \in Starts :
        (stopPc[k] = "returned" /\ loopDone[s] = k) =>
            /\ loopPc[s] = "exited"
            /\ AllUnsubscribed(s)
            /\ unsub[s] # <<>>
            /\ l1Closed >= 1
            /\ \A i \in NodeEngines : engClosed[i] >= 1
            /\ stopErr[k] = "nil"

C3_Witness ==
    \E k \in Stops, s \in Starts :
        /\ loopDone[s] = k
        /\ loopPc[s] = "exited"
        /\ stopPc[k] = "returned"
        /\ stopAfter[k] = 1

\* C4. Stop on a node that was never started is a no-op: with no Start call
\* made, on the node New built or on a zero-valued node, a Stop call is never
\* left blocked and returns nil, and nothing is unsubscribed or closed.
C4_StopUnstartedNoop ==
    (\A s \in Starts : startPc[s] = "idle") =>
        /\ \A k \in Stops : stopPc[k] \in {"idle", "returned"}
        /\ \A k \in Stops : stopPc[k] = "returned" => stopErr[k] = "nil"
        /\ l1Closed = 0
        /\ \A i \in Engines : engClosed[i] = 0

\* C5. Start is idempotent: a second Start call leaves the node as the first
\* did (no second event loop, L1 heads subscription, Drive subscription or
\* bootstrap request), so that a Stop call made after both has, on return,
\* unsubscribed every handle that Start created.
C5_StartIdempotent ==
    /\ \A s \in Starts \ {1} :
        startPc[s] = "done" =>
            /\ loopPc[s] = "none"
            /\ \A h \in Handles : ~subs[s][h].created
            /\ \A i \in Engines : reqs[s][i] = <<>>
    /\ \A k \in Stops :
        (stopPc[k] = "returned" /\ stopAfter[k] >= 2) =>
            \A s \in Starts, h \in Handles :
                subs[s][h].created => subs[s][h].unsubCalls >= 1

\* Every L1 dial of the configuration produced a client, and there is one.
L1Usable(conf) ==
    /\ Len(conf.l1) >= 1
    /\ \A j \in 1..Len(conf.l1) : conf.l1[j] # "fail"

\* The engine addresses whose dial produced a backend.
RECURSIVE Dialled(_)
Dialled(addrs) ==
    IF addrs = <<>> THEN <<>>
    ELSE IF Head(addrs) = "fail" THEN Dialled(Tail(addrs))
    ELSE <<Head(addrs)>> \o Dialled(Tail(addrs))

\* C6. An engine address whose dial produces no backend is only a warning:
\* with a valid log configuration and usable L1 endpoints New succeeds
\* however many engine dials fail, with the remaining engines attached.
C6_EngineDialOnlyWarns ==
    (newErr # "none" /\ cfg.logOk /\ L1Usable(cfg)) =>
        /\ newErr = "nil"
        /\ c.l2Engines = Dialled(cfg.l2)

\* C7. L1 endpoint resolution in New: New fails, returning no node, on an
\* invalid log configuration, on an empty L1 address list and on any L1 dial
\* that produces no client; a dial that reports an error but produces a
\* client is accepted and added. New succeeds exactly when the configuration
\* is valid, the list is not empty and every dial produced a handle.
C7_L1Resolution ==
    newErr # "none" =>
        /\ newErr = "nil" <=>
            /\ cfg.logOk
            /\ L1Usable(cfg)
            /\ \A j \in 1..Len(cfg.l2) : cfg.l2[j] # "fail"
        /\ ~cfg.logOk => newErr = "log"
        /\ (cfg.logOk /\ \E j \in 1..Len(cfg.l1) : cfg.l1[j] = "fail") => newErr = "dialL1"
        /\ (cfg.logOk /\ cfg.l1 = <<>>) => newErr = "noL1"
        /\ newErr # "nil" => c = ZeroNode
        /\ newErr = "nil" => c.close = "chan" /\ c.l1Source = cfg.l1

C7_Witness ==
    /\ newErr = "nil"
    /\ \E j \in 1..Len(cfg.l1) : cfg.l1[j] = "disc"
    /\ Len(c.l1Source) = MaxL1

\* C8. Engine bootstrap fallback: within a Start call each engine's head
\* request is made exactly once; after a failed request UpdateHead has been
\* called once with genesis and the head is exactly genesis; after a
\* successful one UpdateHead with genesis is not called; no engine leaves
\* its bootstrap with an undefined head.
C8_BootstrapFallback ==
    \A s \in Starts, i \in Engines :
        /\ Len(reqs[s][i]) <= 1
        /\ PastBootstrap(s, i) =>
            /\ Len(reqs[s][i]) = 1
            /\ engHead[i] # "undef"
            /\ genCalls[s][i] = IF reqs[s][i][1] THEN 0 ELSE 1
        /\ (startPc[s] = "sub" /\ startEng[s] = i) =>
            engHead[i] = IF reqs[s][i][1] THEN "reported" ELSE "genesis"

C8_Witness ==
    \E s \in Starts, i \in Engines :
        /\ startPc[s] = "sub"
        /\ startEng[s] = i
        /\ reqs[s][i] = <<FALSE>>
        /\ engHead[i] = "genesis"

\* C9. Bootstrap before subscribe: an engine whose channel is registered on
\* the feed, or whose Drive loop has been started, has an initial head, so
\* no Drive loop takes a live head with the head undefined.
C9_BootstrapBeforeSubscribe ==
    \A s \in Starts, i \in Engines :
        (i \in Registered(s) \/ drive[s][i] # "none") => engHead[i] # "undef"

C9_Witness ==
    \E s \in Starts, i \in Engines :
        /\ drive[s][i] = "running"
        /\ i \in Registered(s)
        /\ reqs[s][i] = <<FALSE>>
        /\ engHead[i] = "derived"

\* C10. Every fan-out registration precedes the first head on the feed: a
\* feed on which a head has been sent has every engine channel and the
\* observer channel registered.
C10_RegisteredBeforeFeed ==
    \A s \in Starts :
        sent[s] >= 1 =>
            /\ Observer \in Registered(s)
            /\ \A i \in NodeEngines : i \in Registered(s)

\* C11. Fan-out fidelity: once Start has returned, every head the L1
\* subscription hands to the feed is appended, in the same step and exactly
\* once, to the channel of every engine of the node and of the observer; a
\* channel changes only by such an append or by its consumer taking its
\* oldest head, so each consumer gets the heads sent, in the order sent,
\* none twice and none dropped.
C11_FanoutFidelity ==
    /\ [][\A s \in Starts :
            (startPc[s] = "done" /\ sent'[s] = sent[s] + 1) =>
                /\ Registered(s) = {Observer} \cup NodeEngines
                /\ \A x \in Registered(s) :
                        chans'[s][x] = Append(chans[s][x], produced')]_vars
    /\ [][\A s \in Starts, x \in Consumers :
            chans'[s][x] # chans[s][x] =>
                \/ /\ sent'[s] = sent[s] + 1
                   /\ chans'[s][x] = Append(chans[s][x], produced')
                \/ /\ chans[s][x] # <<>>
                   /\ chans'[s][x] = Tail(chans[s][x])]_vars

C11_Witness ==
    \E s \in Starts :
        /\ startPc[s] = "done"
        /\ NodeEngines # {}
        /\ \A x \in {Observer} \cup NodeEngines : chans[s][x] = <<1, 2>>

\* Consumer x of the feed of Start s still takes heads from its channel: a
\* running Drive loop, or the event loop at its select.
Reading(s, x) ==
    IF x = Observer THEN loopPc[s] = "select" ELSE drive[s][x] = "running"

\* C12. Engine failure isolation: after the Drive loop of one engine has
\* failed, the feed is never held up by that engine's channel, so the heads
\* that follow, however many, go on to the other engines and the observer;
\* and the event loop is still at its select unless a Stop has been taken.
C12_EngineFailureIsolated ==
    \A s \in Starts, i \in Engines :
        drive[s][i] = "failed" =>
            /\ i \notin sending[s]
            /\ (loopPc[s] # "none" /\ loopDone[s] = 0) => loopPc[s] = "select"

\* C13. Stop concurrent with signal delivery does not deadlock: the event
\* loop that has taken a Stop is never held at an unsubscribe, whatever the
\* feed is doing, so teardown runs to its end and Stop returns.
C13_StopNeverHeld ==
    \A s \in Starts :
        loopPc[s] = "unsub" => CanUnsubscribe(s, unsub[s][loopIdx[s]])

\* C17. A slow consumer does not block delivery to others: while a Send
\* waits on the full channel of one consumer, no other consumer that is
\* still reading sits on an empty channel, kept from the heads that follow.
C17_SlowConsumerIsolated ==
    \A s \in Starts, x \in Consumers :
        x \in sending[s] =>
            ~\E y \in Registered(s) \ {x} : Reading(s, y) /\ chans[s][y] = <<>>

\* C14. Resubscription liveness: as long as the L1 heads subscription has
\* not been unsubscribed, the supervisor is, or will again be, making an
\* attempt or holding a live subscription, after however many failures; and
\* every head sent on the feed, after a resubscription as before it, is
\* appended to the channel of every registered consumer.
C14_ResubscriptionLiveness ==
    /\ \A s \in Starts :
            [](sup[s] # "none" =>
                <>(\/ sup[s] \in {"subscribing", "active"}
                   \/ subs[s][L1HeadsSub].unsubCalls >= 1))
    /\ [][\A s \in Starts :
            sent'[s] = sent[s] + 1 =>
                \A x \in Registered(s) :
                    /\ Len(chans'[s][x]) = Len(chans[s][x]) + 1
                    /\ chans'[s][x][Len(chans'[s][x])] = produced']_vars

\* A head went out on a live subscription, which then failed: the wait is
\* over and the next attempt is being made.
C14_Witness ==
    \E s \in Starts :
        /\ startPc[s] = "done"
        /\ sent[s] >= 1
        /\ sup[s] = "subscribing"

\* C15. Every subscription handle created during Start is in the unsub list
\* exactly once: when Start has returned, the list holds each Drive handle
\* and the L1 heads handle once and nothing that was not created, and it
\* also holds the feed subscription of every channel registered for
\* fan-out, the engines' and the observer's.
C15_EveryHandleListed ==
    \A s \in Starts :
        startPc[s] = "done" =>
            /\ \A h \in Handles :
                    subs[s][h].created =>
                        Cardinality({j \in 1..Len(unsub[s]) : unsub[s][j] = h}) = 1
            /\ \A j \in 1..Len(unsub[s]) :
                    unsub[s][j] \in Handles => subs[s][unsub[s][j]].created
            /\ \A x \in Registered(s) :
                    \E j \in 1..Len(unsub[s]) : unsub[s][j] = FeedHandle(x)

\* C16. The supervisor's Closed state is terminal and entered only by
\* shutdown: the supervisor is closed exactly when the L1 heads subscription
\* has been unsubscribed, and from then on it stays closed, makes no
\* attempt, and no head is sent on the feed or is in flight on it.
C16_ClosedTerminal ==
    /\ [](\A s \in Starts :
            sup[s] = "closed" <=> subs[s][L1HeadsSub].unsubCalls >= 1)
    /\ [][\A s \in Starts :
            sup[s] = "closed" =>
                /\ sup'[s] = "closed"
                /\ sent'[s] = sent[s]
                /\ sending'[s] = {}
                /\ \A x \in Consumers : Len(chans'[s][x]) <= Len(chans[s][x])]_vars

C16_Witness ==
    \E s \in Starts :
        /\ sup[s] = "closed"
        /\ sent[s] >= 1
        /\ loopPc[s] = "exited"

\* C18. Teardown does not short-circuit and reports success: an event loop
\* that has finished its teardown has unsubscribed every entry of unsub,
\* closed the L1 source and closed every engine, also when a Close met an
\* error on the way; and the value a Stop call returns is nil in every case.
C18_TeardownUnconditional ==
    /\ \A s \in Starts :
            loopPc[s] \in {"reply", "exited"} =>
                /\ AllUnsubscribed(s)
                /\ l1Closed >= 1
                /\ \A i \in NodeEngines : engClosed[i] >= 1
    /\ \A k \in Stops :
            /\ stopPc[k] = "returned" => stopErr[k] = "nil"
            /\ stopPc[k] # "returned" => stopErr[k] = "none"

C18_Witness ==
    \E s \in Starts, k \in Stops :
        /\ closeErr[s]
        /\ NodeEngines # {}
        /\ loopPc[s] = "exited"
        /\ loopDone[s] = k
        /\ stopPc[k] = "returned"
        /\ stopErr[k] = "nil"
        /\ \A i \in NodeEngines : engClosed[i] >= 1

\* C19. Every Stop call on a started node returns: a Stop call made after
\* Start returned and waiting on c.close has an event loop that has not
\* exited, so there is a receiver that can take its request.
C19_StopAlwaysAnswered ==
    \A k \in Stops :
        (stopPc[k] = "send" /\ stopAfter[k] >= 1) =>
            \E s \in Starts : startPc[s] = "done" /\ loopPc[s] # "exited"

\* C20. No error listener outlives shutdown: a listener ends with the first
\* value it reads, so an error that has been taken from a subscription's
\* error channel leaves its listener ended, and a listener that has ended
\* stays ended; and once the event loop has replied to Stop, every listener
\* has ended or has a closed error channel to read, on which it ends.
C20_ListenersEnd ==
    /\ [](\A s \in Starts, h \in Handles :
            /\ (h \in Engines /\ drive[s][h] = "failed" /\ subs[s][h].err = "open")
                    => listener[s][h] = "exited"
            /\ (loopPc[s] = "exited" /\ subs[s][h].created)
                    => (listener[s][h] = "exited" \/ subs[s][h].err = "closed"))
    /\ [][\A s \in Starts, h \in Handles :
            listener[s][h] = "exited" => listener'[s][h] = "exited"]_vars

C20_Witness ==
    \E s \in Starts, i \in Engines :
        /\ loopPc[s] = "exited"
        /\ drive[s][i] = "failed"
        /\ listener[s][i] = "exited"
        /\ listener[s][L1HeadsSub] = "waiting"
        /\ subs[s][L1HeadsSub].err = "closed"

====
